---- MODULE Spec2Model ----
(***************************************************************************)
(* Othello engine: bitboard position (BitboardOthelloPosition.py), the     *)
(* alpha-beta search (AlphaBeta.py), the leaf evaluator                    *)
(* (GreedyEvaluator.py) and the iterative-deepening driver (Othello.py).   *)
(*                                                                         *)
(* A bitboard is a Python integer used as a 64-bit mask.  It is modelled   *)
(* as the set of the indices of its one bits: bit r*8+c is the square in   *)
(* 0-based row r and column c.  &, | and "& ~" are intersection, union and *)
(* difference; << and >> move every index up or down (Python integers are  *)
(* unbounded, so << loses nothing until a 64-bit mask is applied, and >>   *)
(* drops the bits shifted below bit 0).                                    *)
(***************************************************************************)
EXTENDS Integers, Sequences, FiniteSets, TLC

VARIABLES
    pos,        \* the position object the caller currently holds
    ply,        \* number of make_move calls that produced pos
    call,       \* the last make_move call: its action, receiver and result
    search,     \* the last AlphaBeta.evaluate call: its depth, root and result
    now,        \* the wall clock read by time.time(), in units of 5 ms
    drv,        \* the driver of Othello.py: its position in the code and locals
    mem,        \* the position objects alive, as they were before the last
                \* method call, and that call
    io,         \* a position string, the text to_string renders from the
                \* parsed position, and the position parsed from that text
    run         \* an AlphaBeta object: its fields, the frames of max_value
                \* and min_value on the call stack, and what evaluate returned

vars == <<pos, ply, call, search, now, drv, mem, io, run>>

(***************************************************************************)
(* Bounds of the model.                                                    *)
(***************************************************************************)
MaxPly == 3

MaxTryPly == 1

MaxSearchPly == 1

MaxDepth == 4

\* deepest iteration of the driver that may run to completion
MaxIterDepth == 2

\* the clock stops advancing once it reads this or more
MaxClock == 20

\* what the clock advances by between two readings that differ (25 ms)
TickSize == 5

\* position objects alive at once
MaxObjects == 3

\* characters of a position string that are overwritten
MaxEdits == 1

\* moves played on a parsed position before it is rendered
MaxParsePly == 1

(***************************************************************************)
(* Bit operations.                                                         *)
(***************************************************************************)
FULL == 0 .. 63

NOT_A_FILE == {p \in FULL : p % 8 # 0}

NOT_H_FILE == {p \in FULL : p % 8 # 7}

\* (b << shift) for shift > 0, (b >> -shift) otherwise
ShiftBits(b, shift) ==
    IF shift > 0
    THEN {p + shift : p \in b}
    ELSE {p + shift : p \in {q \in b : q + shift >= 0}}

popcount(b) == Cardinality(b)

(***************************************************************************)
(* OthelloAction: a placement (row, col in 1..8) or a pass.                *)
(***************************************************************************)
OthelloAction(row, col, is_pass) ==
    [row |-> row, col |-> col, is_pass_move |-> is_pass]

PassAction == OthelloAction(0, 0, TRUE)

Placements == {OthelloAction(r, c, FALSE) : r \in 1 .. 8, c \in 1 .. 8}

BitPos(a) == (a.row - 1) * 8 + (a.col - 1)

(***************************************************************************)
(* BitboardOthelloPosition                                                 *)
(***************************************************************************)
Position(w, b, e, mp) ==
    [white_bitboard |-> w, black_bitboard |-> b, empty_bitboard |-> e,
     maxPlayer |-> mp]

\* the object right after BitboardOthelloPosition(): an empty board
EmptyPosition == Position({}, {}, FULL, TRUE)

\* initialize(): the standard starting position, white to move
initialize ==
    LET white == {27, 36}
        black == {28, 35}
    IN  Position(white, black, FULL \ (white \cup black), TRUE)

\* the East shift left without its file mask
DirectionsEastUnmasked ==
    << [shift |-> -8, mask |-> FULL],
       [shift |-> 8, mask |-> FULL],
       [shift |-> 1, mask |-> FULL],
       [shift |-> -1, mask |-> NOT_H_FILE],
       [shift |-> -7, mask |-> NOT_A_FILE],
       [shift |-> -9, mask |-> NOT_H_FILE],
       [shift |-> 9, mask |-> NOT_A_FILE],
       [shift |-> 7, mask |-> NOT_H_FILE] >>

\* the eight (shift, mask) pairs, in the order of the source
Directions ==
    << [shift |-> -8, mask |-> FULL],
       [shift |-> 8, mask |-> FULL],
       [shift |-> 1, mask |-> NOT_A_FILE],
       [shift |-> -1, mask |-> NOT_H_FILE],
       [shift |-> -7, mask |-> NOT_A_FILE],
       [shift |-> -9, mask |-> NOT_H_FILE],
       [shift |-> 9, mask |-> NOT_A_FILE],
       [shift |-> 7, mask |-> NOT_H_FILE] >>

\* the while loop of _get_moves_direction
RECURSIVE WalkChains(_, _, _, _, _, _)
WalkChains(temp_opponents, moves, opp_pieces, empty, shift, mask) ==
    IF temp_opponents = {}
    THEN moves
    ELSE LET shifted == ShiftBits(temp_opponents, shift) \cap mask
         IN  WalkChains(shifted \cap opp_pieces, moves \cup (shifted \cap empty),
                        opp_pieces, empty, shift, mask)

get_moves_direction(my_pieces, opp_pieces, empty, shift, mask) ==
    LET adjacent_to_mine == ShiftBits(my_pieces, shift) \cap mask
        adjacent_opponents == adjacent_to_mine \cap opp_pieces
    IN  WalkChains(adjacent_opponents, {}, opp_pieces, empty, shift, mask)

generate_moves_bitboard(p, my_pieces, opp_pieces) ==
    UNION {get_moves_direction(my_pieces, opp_pieces, p.empty_bitboard,
                               Directions[i].shift, Directions[i].mask)
           : i \in 1 .. 8}

MyPieces(p) == IF p.maxPlayer THEN p.white_bitboard ELSE p.black_bitboard

OppPieces(p) == IF p.maxPlayer THEN p.black_bitboard ELSE p.white_bitboard

\* the bitboard of legal squares computed by get_moves
PossibleMoves(p) == generate_moves_bitboard(p, MyPieces(p), OppPieces(p))

\* the bit scan of get_moves: lowest set bit first
RECURSIVE BitScan(_)
BitScan(possible_moves) ==
    IF possible_moves = {}
    THEN << >>
    ELSE LET move_pos == CHOOSE m \in possible_moves :
                             \A n \in possible_moves : m <= n
         IN  <<OthelloAction((move_pos \div 8) + 1, (move_pos % 8) + 1, FALSE)>>
             \o BitScan(possible_moves \ {move_pos})

get_moves(p) == BitScan(PossibleMoves(p))

Range(s) == {s[i] : i \in 1 .. Len(s)}

\* the ray walk that returns the run without looking for the closing own disc
RECURSIVE WalkRayNoAnchor(_, _, _, _, _, _)
WalkRayNoAnchor(current, opponent_run, shift, mask, my_pieces, opp_pieces) ==
    IF current # {} /\ (current \cap opp_pieces) # {}
    THEN WalkRayNoAnchor(ShiftBits(current, shift) \cap mask,
                         opponent_run \cup current,
                         shift, mask, my_pieces, opp_pieces)
    ELSE opponent_run

\* the while loop of _get_flips_direction and the test that follows it
RECURSIVE WalkRay(_, _, _, _, _, _)
WalkRay(current, opponent_run, shift, mask, my_pieces, opp_pieces) ==
    IF current # {} /\ (current \cap opp_pieces) # {}
    THEN WalkRay(ShiftBits(current, shift) \cap mask, opponent_run \cup current,
                 shift, mask, my_pieces, opp_pieces)
    ELSE IF current # {} /\ (current \cap my_pieces) # {}
         THEN opponent_run
         ELSE {}

get_flips_direction(bit_pos, shift, mask, my_pieces, opp_pieces) ==
    WalkRay(ShiftBits({bit_pos}, shift) \cap mask, {}, shift, mask,
            my_pieces, opp_pieces)

\* _is_valid_move_bitboard / _captures_in_direction_bitboard: the rule checked
\* square by square along a (dr, dc) direction
RowColDirections ==
    << <<-1, 0>>, <<-1, 1>>, <<0, 1>>, <<1, 1>>,
       <<1, 0>>, <<1, -1>>, <<0, -1>>, <<-1, -1>> >>

OnBoard(r, c) == 0 <= r /\ r < 8 /\ 0 <= c /\ c < 8

RECURSIVE WalkSquares(_, _, _, _, _, _)
WalkSquares(p, r, c, dr, dc, my_pieces) ==
    IF ~OnBoard(r, c)
    THEN FALSE
    ELSE IF (r * 8 + c) \in p.empty_bitboard
         THEN FALSE
         ELSE IF (r * 8 + c) \in my_pieces
              THEN TRUE
              ELSE WalkSquares(p, r + dr, c + dc, dr, dc, my_pieces)

captures_in_direction_bitboard(p, row, col, dr, dc, my_pieces, opp_pieces) ==
    LET r == row + dr
        c == col + dc
    IN  IF ~OnBoard(r, c)
        THEN FALSE
        ELSE IF (r * 8 + c) \notin opp_pieces
             THEN FALSE
             ELSE WalkSquares(p, r + dr, c + dc, dr, dc, my_pieces)

is_valid_move_bitboard(p, bit_pos, my_pieces, opp_pieces) ==
    \E i \in 1 .. 8 :
        captures_in_direction_bitboard(p, bit_pos \div 8, bit_pos % 8,
                                       RowColDirections[i][1],
                                       RowColDirections[i][2],
                                       my_pieces, opp_pieces)

\* make_move: the returned (new_pos, flips), or the ValueError it raises
Returned(new_pos, flips) == [raised |-> FALSE, new_pos |-> new_pos, flips |-> flips]

Raised == [raised |-> TRUE, new_pos |-> EmptyPosition, flips |-> 0]

\* make_move, first lines: the new object, a copy with the other side to move
NewPosStaysOnMove(p) == p

NewPos(p) == [p EXCEPT !.maxPlayer = ~p.maxPlayer]

\* make_move, placing the disc and applying the flips to the new object;
\* white_to_move is self.maxPlayer
PlaceKeepsCaptured(new_pos, white_to_move, move_mask, all_flips) ==
    IF white_to_move
    THEN [new_pos EXCEPT
            !.white_bitboard = (@ \cup move_mask) \cup all_flips,
            !.empty_bitboard = @ \ move_mask]
    ELSE [new_pos EXCEPT
            !.black_bitboard = (@ \cup move_mask) \cup all_flips,
            !.empty_bitboard = @ \ move_mask]

PlaceKeepsEmpty(new_pos, white_to_move, move_mask, all_flips) ==
    IF white_to_move
    THEN [new_pos EXCEPT
            !.white_bitboard = (@ \cup move_mask) \cup all_flips,
            !.black_bitboard = @ \ all_flips]
    ELSE [new_pos EXCEPT
            !.black_bitboard = (@ \cup move_mask) \cup all_flips,
            !.white_bitboard = @ \ all_flips]

PlaceAndFlip(new_pos, white_to_move, move_mask, all_flips) ==
    IF white_to_move
    THEN [new_pos EXCEPT
            !.white_bitboard = (@ \cup move_mask) \cup all_flips,
            !.black_bitboard = @ \ all_flips,
            !.empty_bitboard = @ \ move_mask]
    ELSE [new_pos EXCEPT
            !.black_bitboard = (@ \cup move_mask) \cup all_flips,
            !.white_bitboard = @ \ all_flips,
            !.empty_bitboard = @ \ move_mask]

\* the flip mask that takes in the square the disc is placed on
AllFlipsWithPlaced(p, bit_pos) ==
    {bit_pos} \cup
    UNION {get_flips_direction(bit_pos, Directions[i].shift, Directions[i].mask,
                               MyPieces(p), OppPieces(p)) : i \in 1 .. 8}

\* make_move, the flip masks of the eight directions combined
AllFlips(p, bit_pos) ==
    UNION {get_flips_direction(bit_pos, Directions[i].shift, Directions[i].mask,
                               MyPieces(p), OppPieces(p)) : i \in 1 .. 8}

\* make_move without its test of the square
SquareNeverTaken(empty_bitboard, move_mask) == FALSE

\* make_move: if not (new_pos.empty_bitboard & move_mask)
SquareTaken(empty_bitboard, move_mask) ==
    (empty_bitboard \cap move_mask) = {}

make_move(p, action) ==
    LET new_pos == NewPos(p)
    IN  IF action.is_pass_move
        THEN Returned(new_pos, 0)
        ELSE LET bit_pos == BitPos(action)
                 move_mask == {bit_pos}
                 all_flips == AllFlips(p, bit_pos)
             IN  IF SquareTaken(new_pos.empty_bitboard, move_mask)
                 THEN Raised
                 ELSE Returned(PlaceAndFlip(new_pos, p.maxPlayer, move_mask,
                                            all_flips),
                               popcount(all_flips))

\* the rendering that walks the board column by column
to_string_by_column(p) ==
    <<IF p.maxPlayer THEN "W" ELSE "B">> \o
    [i \in 1 .. 64 |->
        LET r == (i - 1) \div 8
            c == (i - 1) % 8
            bit_pos == (c * 8) + r
        IN  IF bit_pos \in p.white_bitboard THEN "O"
            ELSE IF bit_pos \in p.black_bitboard THEN "X"
            ELSE "E"]

\* to_string: the 65-character form, as a sequence of characters; the i-th
\* square appended is that of the loop indices r and c
to_string(p) ==
    <<IF p.maxPlayer THEN "W" ELSE "B">> \o
    [i \in 1 .. 64 |->
        LET r == (i - 1) \div 8
            c == (i - 1) % 8
            bit_pos == (r * 8) + c
        IN  IF bit_pos \in p.white_bitboard THEN "O"
            ELSE IF bit_pos \in p.black_bitboard THEN "X"
            ELSE "E"]

\* __init__(board_str): board_str is a sequence of characters; board_str[i + 1]
\* is Python's board_str[i]
BitboardOthelloPosition(board_str) ==
    IF Len(board_str) >= 65
    THEN LET white == {i - 1 : i \in {j \in 1 .. 64 : board_str[j + 1] = "O"}}
             black == {i - 1 : i \in {j \in 1 .. 64 : board_str[j + 1] = "X"}}
         IN  Position(white, black, (FULL \ white) \ black, board_str[1] = "W")
    ELSE EmptyPosition

(***************************************************************************)
(* GreedyEvaluator                                                         *)
(***************************************************************************)
corner_mask == {0, 7, 56, 63}

x_square_mask == {9, 14, 49, 54}

edge_mask ==
    {1, 2, 3, 4, 5, 6} \cup {57, 58, 59, 60, 61, 62} \cup
    {8, 16, 24, 32, 40, 48} \cup {15, 23, 31, 39, 47, 55}

\* float("inf") and float("-inf"): beyond every score the evaluator returns
PosInf == 1000000

NegInf == -1000000

calculate_parity(total_pieces, my_pieces, opp_pieces) ==
    LET remaining_squares == 64 - total_pieces
        piece_diff == my_pieces - opp_pieces
        overall == IF remaining_squares % 2 = 0
                   THEN (IF piece_diff >= 0 THEN 5 ELSE 0)
                   ELSE (IF piece_diff <= 0 THEN 5 ELSE 0)
        tempo == IF total_pieces < 40 /\ -2 <= piece_diff /\ piece_diff <= 0
                 THEN 5
                 ELSE IF total_pieces >= 50 /\ piece_diff > 0
                      THEN piece_diff * 2
                      ELSE 0
    IN  overall + tempo

early_game_eval(mobility_diff, corner_diff, parity_bonus, piece_diff, my_bitboard, opp_bitboard) ==
    LET my_x_squares == popcount(my_bitboard \cap x_square_mask)
        opp_x_squares == popcount(opp_bitboard \cap x_square_mask)
    IN  mobility_diff * 100 + corner_diff * 1000
        - (my_x_squares - opp_x_squares) * 500
        + parity_bonus * 10 + piece_diff * 5

mid_game_eval(mobility_diff, corner_diff, parity_bonus, piece_diff, my_bitboard, opp_bitboard) ==
    LET my_edges == popcount(my_bitboard \cap edge_mask)
        opp_edges == popcount(opp_bitboard \cap edge_mask)
    IN  corner_diff * 2000 + mobility_diff * 80 + (my_edges - opp_edges) * 50
        + parity_bonus * 30 + piece_diff * 20

late_game_greedy(mobility_diff, corner_diff, parity_bonus, piece_diff) ==
    piece_diff * 300 + parity_bonus * 100 + mobility_diff * 60
    + corner_diff * 800
    + (IF piece_diff > 3 THEN piece_diff * 100 ELSE 0)

\* clone(): a copy of the position
clone(p) ==
    Position(p.white_bitboard, p.black_bitboard, p.empty_bitboard, p.maxPlayer)

\* GreedyEvaluator.evaluate(othello_position, None)
evaluate(p) ==
    LET my_bitboard == MyPieces(p)
        opp_bitboard == OppPieces(p)
        my_pieces == popcount(my_bitboard)
        opp_pieces == popcount(opp_bitboard)
        total_pieces == my_pieces + opp_pieces
        my_mobility == Len(get_moves(p))
        temp_pos == [clone(p) EXCEPT !.maxPlayer = ~p.maxPlayer]
        opp_mobility == Len(get_moves(temp_pos))
        mobility_diff == my_mobility - opp_mobility
        corner_diff == popcount(my_bitboard \cap corner_mask)
                       - popcount(opp_bitboard \cap corner_mask)
        parity_bonus == calculate_parity(total_pieces, my_pieces, opp_pieces)
        piece_diff == my_pieces - opp_pieces
    IN  IF total_pieces < 20
        THEN early_game_eval(mobility_diff, corner_diff, parity_bonus,
                             piece_diff, my_bitboard, opp_bitboard)
        ELSE IF total_pieces < 45
             THEN mid_game_eval(mobility_diff, corner_diff, parity_bonus,
                                piece_diff, my_bitboard, opp_bitboard)
             ELSE late_game_greedy(mobility_diff, corner_diff, parity_bonus,
                                   piece_diff)

move_priority(action) ==
    IF action.is_pass_move
    THEN NegInf
    ELSE IF BitPos(action) \in corner_mask
         THEN 10000
         ELSE IF BitPos(action) \in x_square_mask
              THEN -10000
              ELSE IF BitPos(action) \in edge_mask
                   THEN 1000
                   ELSE 0

(***************************************************************************)
(* AlphaBeta                                                               *)
(***************************************************************************)
\* list.sort(key=move_priority, reverse=True): stable, highest priority first
RECURSIVE InsertByPriority(_, _)
InsertByPriority(sorted, action) ==
    IF sorted = << >>
    THEN <<action>>
    ELSE IF move_priority(Head(sorted)) >= move_priority(action)
         THEN <<Head(sorted)>> \o InsertByPriority(Tail(sorted), action)
         ELSE <<action>> \o sorted

RECURSIVE SortByPriority(_, _)
SortByPriority(moves, sorted) ==
    IF moves = << >>
    THEN sorted
    ELSE SortByPriority(Tail(moves), InsertByPriority(sorted, Head(moves)))

\* the moves a node scans: get_moves, or a single pass, sorted by priority
\* the move list that always offers the pass as well
NodeMovesWithPass(p) ==
    SortByPriority(get_moves(p) \o <<PassAction>>, << >>)

\* max_value and min_value, lines 221-243: the moves a node tries, in order
NodeMoves(p) ==
    LET possible_moves == get_moves(p)
    IN  SortByPriority(IF possible_moves = << >> THEN <<PassAction>>
                       ELSE possible_moves, << >>)

\* an action returned by the search together with the value it carries
Valued(action, value) == [action |-> action, value |-> value]

\* best_action = None
NoneAction == [row |-> -1, col |-> -1, is_pass_move |-> FALSE]

\* the dummy action of a leaf
LeafAction == OthelloAction(0, 0, FALSE)

Max(a, b) == IF a >= b THEN a ELSE b

Min(a, b) == IF a <= b THEN a ELSE b

\* min_value taking the minimum with alpha where the source has beta
NarrowAtMinFromAlpha(alpha, beta, best_value) ==
    [alpha |-> alpha, beta |-> Min(alpha, best_value)]

\* min_value: beta = min(beta, best_value)
NarrowAtMin(alpha, beta, best_value) ==
    [alpha |-> alpha, beta |-> Min(beta, best_value)]

\* max_value: alpha = max(alpha, best_value)
NarrowAtMax(alpha, beta, best_value) ==
    [alpha |-> Max(alpha, best_value), beta |-> beta]

RECURSIVE max_value(_, _, _, _, _)
RECURSIVE min_value(_, _, _, _, _)
RECURSIVE MaxLoop(_, _, _, _, _, _, _, _, _)
RECURSIVE MinLoop(_, _, _, _, _, _, _, _, _)

\* the for loop of max_value from the i-th move on
MaxLoop(p, moves, i, alpha, beta, depth, search_depth, best_value, best_action) ==
    IF i > Len(moves)
    THEN Valued(best_action, best_value)
    ELSE LET child_pos == make_move(p, moves[i]).new_pos
             child_value == min_value(child_pos, alpha, beta, depth + 1,
                                      search_depth).value
             better == child_value > best_value
             value == IF better THEN child_value ELSE best_value
             action == IF better THEN moves[i] ELSE best_action
             window == NarrowAtMax(alpha, beta, value)
         IN  IF window.alpha >= window.beta
             THEN Valued(action, value)
             ELSE MaxLoop(p, moves, i + 1, window.alpha, window.beta, depth,
                          search_depth, value, action)

\* the for loop of min_value from the i-th move on
MinLoop(p, moves, i, alpha, beta, depth, search_depth, best_value, best_action) ==
    IF i > Len(moves)
    THEN Valued(best_action, best_value)
    ELSE LET child_pos == make_move(p, moves[i]).new_pos
             child_value == max_value(child_pos, alpha, beta, depth + 1,
                                      search_depth).value
             better == child_value < best_value
             value == IF better THEN child_value ELSE best_value
             action == IF better THEN moves[i] ELSE best_action
             window == NarrowAtMin(alpha, beta, value)
         IN  IF window.beta <= window.alpha
             THEN Valued(action, value)
             ELSE MinLoop(p, moves, i + 1, window.alpha, window.beta, depth,
                          search_depth, value, action)

max_value(p, alpha, beta, depth, search_depth) ==
    IF depth = search_depth
    THEN Valued(LeafAction, evaluate(p))
    ELSE MaxLoop(p, NodeMoves(p), 1, alpha, beta, depth, search_depth,
                 NegInf, NoneAction)

min_value(p, alpha, beta, depth, search_depth) ==
    IF depth = search_depth
    THEN Valued(LeafAction, evaluate(p))
    ELSE MinLoop(p, NodeMoves(p), 1, alpha, beta, depth, search_depth,
                 PosInf, NoneAction)

\* AlphaBeta.evaluate(othello_position) with self.search_depth = search_depth
AlphaBetaEvaluate(p, search_depth) ==
    max_value(p, NegInf, PosInf, 0, search_depth)

(***************************************************************************)
(* The search one node at a time: the fields of an AlphaBeta object, the   *)
(* frames of max_value and min_value on the call stack, the clock the      *)
(* checks read and the transposition table the nodes write.                *)
(***************************************************************************)

\* max_value, min_value: if self.nodes_searched % 1000 == 0
CheckEvery == 1000

\* time_limit = None, which __force_stop_if_time_elapsed takes as no limit
NoLimit == 0

\* __force_stop_if_time_elapsed with the clock reading `clock`: start_time
\* is a time since the epoch and never false
Elapsed(r, clock) ==
    /\ r.time_limit # NoLimit
    /\ (clock - r.start_time) >= r.time_limit

\* the check at the entry of a node raises
EntryCheckRaises(r, clock) ==
    /\ r.nodes_searched % CheckEvery = 0
    /\ Elapsed(r, clock)

\* the loops of max_value and min_value without their check of the clock
ChildCheckSkipped(r, clock) == FALSE

\* the check before each child in the loops of max_value and min_value raises
ChildCheckRaises(r, clock) == Elapsed(r, clock)

\* _store_transposition: the table with the entry of pos written
store_transposition(table, p, depth, value, move, alpha, beta) ==
    LET entry_type == IF value <= alpha THEN "upper"
                      ELSE IF value >= beta THEN "lower"
                      ELSE "exact"
        entry == [value |-> value, move |-> move, entry_type |-> entry_type,
                  depth |-> depth]
    IN  [key \in (DOMAIN table) \cup {p} |->
            IF key = p THEN entry ELSE table[key]]

NotFound == [found |-> FALSE, value |-> 0, move |-> NoneAction]

\* a lookup that asks for the depth of exact entries only
lookup_transposition_bounds_any_depth(table, p, depth, alpha, beta) ==
    IF p \in DOMAIN table
    THEN LET entry == table[p]
             usable ==
                 \/ entry.entry_type = "exact" /\ entry.depth >= depth
                 \/ entry.entry_type = "lower" /\ entry.value >= beta
                 \/ entry.entry_type = "upper" /\ entry.value <= alpha
         IN  IF usable
             THEN [found |-> TRUE, value |-> entry.value, move |-> entry.move]
             ELSE NotFound
    ELSE NotFound

\* _lookup_transposition: (found, value, move)
lookup_transposition(table, p, depth, alpha, beta) ==
    IF p \in DOMAIN table
    THEN LET entry == table[p]
             usable ==
                 /\ entry.depth >= depth
                 /\ \/ entry.entry_type = "exact"
                    \/ entry.entry_type = "lower" /\ entry.value >= beta
                    \/ entry.entry_type = "upper" /\ entry.value <= alpha
         IN  IF usable
             THEN [found |-> TRUE, value |-> entry.value, move |-> entry.move]
             ELSE NotFound
    ELSE NotFound

\* max_value and min_value with the lookup of the table in force
TableProbeInForce(table, p, depth, alpha, beta) ==
    lookup_transposition(table, p, depth, alpha, beta)

\* max_value, min_value: the lookup of the table is commented out, so no
\* entry is ever found
TableProbe(table, p, depth, alpha, beta) == NotFound

\* a frame of max_value (maximizing) or min_value at the start of its loop
NewFrame(p, maximizing, alpha, beta, depth) ==
    [p |-> p, maximizing |-> maximizing, moves |-> NodeMoves(p), i |-> 1,
     alpha |-> alpha, beta |-> beta,
     original_alpha |-> alpha, original_beta |-> beta,
     best_value |-> IF maximizing THEN NegInf ELSE PosInf,
     best_action |-> NoneAction, depth |-> depth]

\* loops that never break
CutoffNever(window) == FALSE

\* max_value: if alpha >= beta: break; min_value: if beta <= alpha: break
Cutoff(window) == window.alpha >= window.beta

\* the body of the loop after the call of the child returned `valued`
Deliver(f, valued) ==
    LET child_value == valued.value
        better == IF f.maximizing THEN child_value > f.best_value
                  ELSE child_value < f.best_value
        value == IF better THEN child_value ELSE f.best_value
        action == IF better THEN f.moves[f.i] ELSE f.best_action
        window == IF f.maximizing THEN NarrowAtMax(f.alpha, f.beta, value)
                  ELSE NarrowAtMin(f.alpha, f.beta, value)
        cut == Cutoff(window)
    IN  [f EXCEPT !.best_value = value, !.best_action = action,
                  !.alpha = window.alpha, !.beta = window.beta,
                  !.i = IF cut THEN Len(f.moves) + 1 ELSE f.i + 1]

\* a node returns `valued` to the frame that called it, or to evaluate
ReturnValue(r, valued) ==
    IF r.stack = << >>
    THEN [r EXCEPT !.status = "returned", !.result = valued]
    ELSE [r EXCEPT !.stack[Len(r.stack)] = Deliver(@, valued)]

\* StopSignal leaves every frame
RaiseStopSignal(r) == [r EXCEPT !.status = "stopped", !.stack = << >>]

\* max_value or min_value is called: the check at its entry, the count of
\* the node, the lookup, and either the leaf or the start of the loop
EnterNode(r, clock, p, maximizing, alpha, beta, depth) ==
    IF EntryCheckRaises(r, clock)
    THEN RaiseStopSignal(r)
    ELSE LET late == IF Elapsed(r, clock) THEN 1 ELSE 0
             counted == [r EXCEPT !.nodes_searched = @ + 1,
                                  !.late_nodes = @ + late]
             probe == TableProbe(r.transposition_table, p, depth, alpha, beta)
             val == evaluate(p)
         IN  IF probe.found
             THEN ReturnValue(counted, Valued(probe.move, probe.value))
             ELSE IF depth = r.search_depth
             THEN ReturnValue(
                      [counted EXCEPT !.transposition_table =
                          store_transposition(@, p, depth, val, LeafAction,
                                              alpha, beta)],
                      Valued(LeafAction, val))
             ELSE [counted EXCEPT !.stack =
                      Append(@, NewFrame(p, maximizing, alpha, beta, depth))]

\* the loop of the top frame goes to its next child: the check of the clock,
\* make_move and the call of min_value or max_value
ExpandChild(r, clock) ==
    LET f == r.stack[Len(r.stack)]
        child_pos == make_move(f.p, f.moves[f.i]).new_pos
        late == IF Elapsed(r, clock) THEN 1 ELSE 0
    IN  IF ChildCheckRaises(r, clock)
        THEN RaiseStopSignal(r)
        ELSE EnterNode([r EXCEPT !.late_moves = @ + late], clock, child_pos,
                       ~f.maximizing, f.alpha, f.beta, f.depth + 1)

\* the store with the window as the loop has narrowed it
StoreWindowNarrowed(f) == [alpha |-> f.alpha, beta |-> f.beta]

\* the alpha and beta given to _store_transposition after the loop:
\* (original_alpha, beta) in max_value, (alpha, original_beta) in min_value
StoreWindow(f) ==
    IF f.maximizing
    THEN [alpha |-> f.original_alpha, beta |-> f.beta]
    ELSE [alpha |-> f.alpha, beta |-> f.original_beta]

\* the loop of the top frame is over: the entry of the node is written and
\* best_action returned
FinishNode(r) ==
    LET f == r.stack[Len(r.stack)]
        table == store_transposition(r.transposition_table, f.p, f.depth,
                     f.best_value, f.best_action,
                     StoreWindow(f).alpha, StoreWindow(f).beta)
    IN  ReturnValue([r EXCEPT !.transposition_table = table,
                              !.stack = SubSeq(@, 1, Len(@) - 1)],
                    Valued(f.best_action, f.best_value))

(***************************************************************************)
(* Position strings that appear in the source, written by their side to    *)
(* move and the squares holding "O" and "X".                               *)
(***************************************************************************)
PosString(side, os, xs) ==
    [i \in 1 .. 65 |->
        IF i = 1 THEN side
        ELSE IF (i - 2) \in os THEN "O"
        ELSE IF (i - 2) \in xs THEN "X"
        ELSE "E"]

\* Othello.py: the default test position
DefaultPosString ==
    PosString("B", {4, 5, 6, 12, 19, 20, 22, 26, 27, 28, 33, 34, 35, 36, 43},
              {1, 3, 7, 10, 11, 14, 21, 42})

\* test_bitboard.py: the empty board, the all-white board, the striped board
EmptyBoardString == PosString("W", {}, {})

WhiteBoardString == PosString("W", FULL, {})

StripedBoardString ==
    PosString("B", {p \in FULL : p % 4 \in {2, 3}}, {p \in FULL : p % 4 \in {0, 1}})

\* test_bitboard_optimized.py: the standard start as a string
StandardString == PosString("W", {27, 36}, {28, 35})

\* the opening position given on the command line with black to move
OpeningBlackString == PosString("B", {27, 36}, {28, 35})

\* a command-line position in which white, to move, has the corner (8, 1) and
\* the X-square (2, 2) as its only placements
CornerTrapString ==
    PosString("W",
              {0, 3, 4, 10, 11, 12, 13, 14, 17, 21, 22, 24, 26, 27, 29,
               30, 32, 33, 34, 36, 37, 38, 39, 41, 42, 43, 44, 46, 47, 48,
               50, 53, 54, 55, 60, 62},
              {1, 2, 5, 6, 7, 8, 15, 16, 18, 19, 20, 23, 25, 28, 31, 35,
               40, 45, 49, 51, 52, 57, 58, 59, 61, 63})

\* a command-line position in which white, to move, has no placement and
\* black has one
ForcedPassString == PosString("W", {1}, {0})

\* two positions late in a game played from the standard start: black to move
\* with 5 empty squares, white to move with 8 empty squares
LateGameString5 ==
    PosString("B",
              {1, 4, 5, 14, 18, 19, 20, 21, 23, 29, 30, 31, 33, 34, 38, 39, 41,
               42, 43, 46, 47, 48, 51, 52, 53, 54, 55, 56, 59, 60, 61, 63},
              {0, 2, 8, 9, 10, 11, 12, 13, 15, 16, 17, 24, 25, 26, 27, 28, 32,
               35, 36, 37, 40, 44, 45, 49, 50, 57, 58})

LateGameString8 ==
    PosString("W",
              {1, 3, 10, 11, 15, 18, 19, 20, 21, 22, 23, 28, 29, 30, 31, 33, 34,
               36, 37, 38, 39, 42, 45, 46, 47, 49, 52, 57},
              {4, 5, 6, 8, 12, 13, 14, 16, 17, 24, 25, 26, 27, 32, 35, 41, 43,
               44, 50, 51, 53, 54, 58, 59, 60, 61, 62, 63})

(***************************************************************************)
(* Positions the program is started on.                                    *)
(***************************************************************************)
\* the positions searched to the full depth limit
SearchPositions ==
    {initialize} \cup
    {BitboardOthelloPosition(s) :
        s \in {LateGameString5, LateGameString8, ForcedPassString,
               WhiteBoardString, StripedBoardString, OpeningBlackString,
               CornerTrapString}}

\* the positions the first object alive is constructed from
HeapPositions ==
    {initialize} \cup
    {BitboardOthelloPosition(s) :
        s \in {LateGameString5, ForcedPassString, OpeningBlackString}}

StartPositions ==
    {initialize} \cup
    {BitboardOthelloPosition(s) :
        s \in {DefaultPosString, EmptyBoardString, WhiteBoardString,
               StripedBoardString, StandardString, ForcedPassString,
               LateGameString5, LateGameString8}}

NoCall == [action |-> PassAction, recv |-> EmptyPosition, ret |-> Raised,
           made |-> FALSE]

CallOf(action, recv, ret) ==
    [action |-> action, recv |-> recv, ret |-> ret, made |-> TRUE]

(***************************************************************************)
(* Othello.py: the iterative-deepening driver.  Times are in units of 5 ms *)
(* counted from `start`, so 0.05 s is 10 units and the budgets are         *)
(* multiples of 10 units, which keeps time_limit * 0.90 a whole number.    *)
(***************************************************************************)
\* the time budgets given on the command line: 50 ms and 100 ms
Budgets == {10, 20}

\* time_limit = time_limit * 0.90
SafetyNumerator == 9

SafetyDenominator == 10

\* "if remaining_time < 0.05"
MinRemaining == 10

\* best_action = None
NoBest == Valued(NoneAction, 0)

NoDriver ==
    [pc |-> "idle", time_limit |-> 0, current_depth |-> 0, remaining_time |-> 0,
     alg_start_time |-> 0, alg_time_limit |-> 0, alg_search_depth |-> 0,
     best_action |-> NoBest, output |-> NoneAction, printed |-> 0]

\* lines 78-96: the state on reaching the while loop for the first time
DriverStart(budget) ==
    [pc |-> "while", time_limit |-> (budget * SafetyNumerator) \div SafetyDenominator,
     current_depth |-> 1, remaining_time |-> 0,
     alg_start_time |-> 0, alg_time_limit |-> 0, alg_search_depth |-> 0,
     best_action |-> NoBest, output |-> NoneAction, printed |-> 0]

(***************************************************************************)
(* Position objects.  A reference is an index into the sequence of objects *)
(* alive; a method reads and writes the fields of the objects it names.    *)
(***************************************************************************)
\* the allocation that hands back the receiver instead of a new object
NewObjectIsSelf(heap, self) == [heap |-> heap, ref |-> self]

\* new_pos = BitboardOthelloPosition(), called inside a method of `self`
NewObject(heap, self) ==
    [heap |-> Append(heap, EmptyPosition), ref |-> Len(heap) + 1]

\* the outcome of a method on the objects: the objects after it and the
\* reference it returns (0 when it returns no position)
Outcome(heap, ref) == [heap |-> heap, ref |-> ref]

\* make_move, statement by statement on the objects
HeapMakeMove(heap, self, action) ==
    LET n == NewObject(heap, self)
        new_pos == n.ref
        copied == [n.heap EXCEPT ![new_pos] = NewPos(n.heap[self])]
    IN  IF action.is_pass_move
        THEN Outcome(copied, new_pos)
        ELSE LET bit_pos == BitPos(action)
                 move_mask == {bit_pos}
             IN  IF SquareTaken(copied[new_pos].empty_bitboard, move_mask)
                 THEN Outcome(copied, 0)
                 ELSE Outcome([copied EXCEPT ![new_pos] =
                                  PlaceAndFlip(copied[new_pos],
                                               copied[self].maxPlayer,
                                               move_mask,
                                               AllFlips(heap[self], bit_pos))],
                              new_pos)

\* clone, statement by statement on the objects
HeapClone(heap, self) ==
    LET n == NewObject(heap, self)
    IN  Outcome([n.heap EXCEPT ![n.ref] = clone(n.heap[self])], n.ref)

\* GreedyEvaluator.evaluate lines 50-52: temp_pos is a clone whose maxPlayer
\* is overwritten; temp_pos is dropped when evaluate returns
HeapEvaluate(heap, self) ==
    LET cloned == HeapClone(heap, self)
        temp_pos == cloned.ref
        written == [cloned.heap EXCEPT
                      ![temp_pos].maxPlayer = ~cloned.heap[self].maxPlayer]
    IN  Outcome(SubSeq(written, 1, Len(heap)), 0)

\* initialize overwrites the four fields of its receiver
HeapInitialize(heap, self) ==
    Outcome([heap EXCEPT ![self] = initialize], 0)

MethodCall(name, self, action, ref) ==
    [name |-> name, self |-> self, action |-> action, ref |-> ref]

NoObjects ==
    [heap |-> << >>, before |-> << >>, op |-> MethodCall("none", 0, NoneAction, 0)]

(***************************************************************************)
(* Position strings, as sequences of characters.                           *)
(***************************************************************************)
Alphabet == {"W", "B", "E", "O", "X", "?"}

\* the characters of a position string that are overwritten: the side to
\* move, the two ends of the board and two squares inside it
EditIndices == {1, 2, 29, 30, 65}

NoText ==
    [stage |-> "none", text |-> << >>, edits |-> 0, rendered |-> << >>,
     reparsed |-> EmptyPosition]

\* no call of _lookup_transposition on the table as it is
NoLookup ==
    [made |-> FALSE, pos |-> EmptyPosition, depth |-> 0, alpha |-> 0,
     beta |-> 0, ret |-> NotFound]

\* AlphaBeta(): no limit, an empty table, no node counted
NoRun ==
    [status |-> "idle", root |-> EmptyPosition, search_depth |-> 0,
     start_time |-> 0, time_limit |-> NoLimit, nodes_searched |-> 0,
     transposition_table |-> << >>, stack |-> << >>, result |-> NoBest,
     searches |-> 0, late_moves |-> 0, late_nodes |-> 0, lookup |-> NoLookup]

NoSearch ==
    [done |-> FALSE, depth |-> 0, root |-> EmptyPosition,
     move |-> Valued(NoneAction, 0)]

Init ==
    /\ pos \in StartPositions
    /\ ply = 0
    /\ call = NoCall
    /\ search = NoSearch
    /\ now = 0
    /\ drv = NoDriver
    /\ mem = NoObjects
    /\ io = NoText
    /\ run = NoRun

\* a caller plays a move that get_moves returned and goes on with the result
PlayMove(action, max_ply) ==
    /\ ply < max_ply
    /\ action \in Range(get_moves(pos))
    /\ LET ret == make_move(pos, action)
       IN  /\ call' = CallOf(action, pos, ret)
           /\ pos' = ret.new_pos
    /\ ply' = ply + 1
    /\ UNCHANGED <<search, now, drv, mem, io, run>>

\* a caller passes because get_moves returned nothing
PlayPass(max_ply) ==
    /\ ply < max_ply
    /\ get_moves(pos) = << >>
    /\ LET ret == make_move(pos, PassAction)
       IN  /\ call' = CallOf(PassAction, pos, ret)
           /\ pos' = ret.new_pos
    /\ ply' = ply + 1
    /\ UNCHANGED <<search, now, drv, mem, io, run>>

\* a caller calls make_move with any placement and only looks at the outcome
TryMove(action) ==
    /\ call' = CallOf(action, pos, make_move(pos, action))
    /\ UNCHANGED <<pos, ply, search, now, drv, mem, io, run>>

\* a caller sets the depth limit and runs one search on the position it holds
RunSearch(depth) ==
    /\ ~search.done
    /\ search' = [done |-> TRUE, depth |-> depth, root |-> pos,
                  move |-> AlphaBetaEvaluate(pos, depth)]
    /\ UNCHANGED <<pos, ply, call, now, drv, mem, io, run>>

Next ==
    \/ \E action \in Placements : PlayMove(action, MaxPly)
    \/ PlayPass(MaxPly)

Spec == Init /\ [][Next]_vars

NextTry ==
    \/ \E action \in Placements : PlayMove(action, MaxTryPly)
    \/ PlayPass(MaxTryPly)
    \/ \E action \in Placements : TryMove(action)

SpecTry == Init /\ [][NextTry]_vars

NextSearch ==
    \/ \E action \in Placements : ~search.done /\ PlayMove(action, MaxSearchPly)
    \/ ~search.done /\ PlayPass(MaxSearchPly)
    \/ \E depth \in 1 .. MaxDepth : RunSearch(depth)

InitSearch ==
    /\ pos \in SearchPositions
    /\ ply = 0
    /\ call = NoCall
    /\ search = NoSearch
    /\ now = 0
    /\ drv = NoDriver
    /\ mem = NoObjects
    /\ io = NoText
    /\ run = NoRun

SpecSearch == InitSearch /\ [][NextSearch]_vars

InitDriver ==
    /\ pos \in SearchPositions
    /\ ply = 0
    /\ call = NoCall
    /\ search = NoSearch
    /\ now = 0
    /\ \E budget \in Budgets : drv = DriverStart(budget)
    /\ mem = NoObjects
    /\ io = NoText
    /\ run = NoRun

\* the wall clock advances between any two steps of the program that read it
\* (nothing reads it once the loop is left)
Tick ==
    /\ drv.pc \in {"while", "body", "set_time_limit", "search"}
    /\ now < MaxClock
    /\ now' = now + TickSize
    /\ UNCHANGED <<pos, ply, call, search, drv, mem, io, run>>

\* line 98: while time.time() - start < time_limit
DriverWhile ==
    /\ drv.pc = "while"
    /\ drv' = [drv EXCEPT !.pc = IF now < drv.time_limit THEN "body" ELSE "finish"]
    /\ UNCHANGED <<pos, ply, call, search, now, mem, io, run>>

\* lines 99-105: set_search_depth, remaining_time, and the break when less
\* than 0.05 s remain
DriverRemaining ==
    /\ drv.pc = "body"
    /\ LET remaining_time == drv.time_limit - now
       IN  drv' = [drv EXCEPT
                     !.alg_search_depth = drv.current_depth,
                     !.remaining_time = remaining_time,
                     !.pc = IF remaining_time < MinRemaining
                            THEN "finish" ELSE "set_time_limit"]
    /\ UNCHANGED <<pos, ply, call, search, now, mem, io, run>>

\* line 107: algorithm.set_time_limit(remaining_time)
DriverSetTimeLimit ==
    /\ drv.pc = "set_time_limit"
    /\ drv' = [drv EXCEPT !.alg_start_time = now,
                          !.alg_time_limit = drv.remaining_time,
                          !.pc = "search"]
    /\ UNCHANGED <<pos, ply, call, search, now, mem, io, run>>

\* __force_stop_if_time_elapsed: the condition under which it raises
TimeElapsed == (now - drv.alg_start_time) >= drv.alg_time_limit

\* AlphaBeta.__init__: sys.setrecursionlimit(5000)
RecursionLimit == 5000

\* the Python frames on the stack when a search with this depth limit is at
\* its deepest: the module, evaluate, one max_value or min_value per depth
\* 0 .. search_depth and, under the leaf, GreedyEvaluator.evaluate, get_moves,
\* _generate_moves_bitboard and _get_moves_direction
FramesNeeded(search_depth) == 1 + 1 + (search_depth + 1) + 4

\* lines 111-116: evaluate returns, every time check having passed
DriverSearchReturns ==
    /\ drv.pc = "search"
    /\ drv.current_depth <= MaxIterDepth
    /\ ~TimeElapsed
    /\ FramesNeeded(drv.alg_search_depth) <= RecursionLimit
    /\ drv' = [drv EXCEPT
                  !.best_action = AlphaBetaEvaluate(pos, drv.alg_search_depth),
                  !.current_depth = @ + 1,
                  !.pc = "while"]
    /\ UNCHANGED <<pos, ply, call, search, now, mem, io, run>>

\* max_value's locals best_action and best_value at the root when the time
\* check before its (k+1)-th child raises
RootPartial(p, search_depth, k) ==
    MaxLoop(p, SubSeq(NodeMoves(p), 1, k), 1, NegInf, PosInf, 0, search_depth,
            NegInf, NoneAction)

\* the handler that takes over what the stopped search had found
KeepPartial(best_action, partial) ==
    IF partial.action = NoneAction THEN best_action ELSE partial

\* lines 111-119: StopSignal leaves line 111 before `move` is bound, so
\* best_action is what it was; partial is lost with the frames of the search
ExceptStopSignal(best_action, partial) == best_action

\* a handler that goes round the loop again
StopSignalContinues == "while"

\* lines 117-119: except StopSignal: break
StopSignalBreaks == "finish"

\* lines 117-119: a time check inside evaluate raises StopSignal
DriverSearchStopped ==
    /\ drv.pc = "search"
    /\ TimeElapsed
    /\ \E k \in 0 .. Len(NodeMoves(pos)) - 1 :
          drv' = [drv EXCEPT
                    !.best_action =
                        ExceptStopSignal(@, RootPartial(pos, drv.alg_search_depth, k)),
                    !.pc = StopSignalBreaks]
    /\ UNCHANGED <<pos, ply, call, search, now, mem, io, run>>

\* lines 123-130: the pass when best_action is None, and print_move
DriverPrint ==
    /\ drv.pc = "finish"
    /\ drv' = [drv EXCEPT
                  !.output = IF drv.best_action = NoBest
                             THEN PassAction
                             ELSE drv.best_action.action,
                  !.printed = @ + 1,
                  !.pc = "done"]
    /\ UNCHANGED <<pos, ply, call, search, now, mem, io, run>>

NextDriver ==
    \/ Tick
    \/ DriverWhile
    \/ DriverRemaining
    \/ DriverSetTimeLimit
    \/ DriverSearchReturns
    \/ DriverSearchStopped
    \/ DriverPrint

SpecDriver == InitDriver /\ [][NextDriver]_vars

\* line 111: the search nests deeper than the recursion limit; RecursionError
\* is not a StopSignal, nothing catches it and nothing is printed
DriverSearchOverflows ==
    /\ drv.pc = "search"
    /\ ~TimeElapsed
    /\ FramesNeeded(drv.alg_search_depth) > RecursionLimit
    /\ drv' = [drv EXCEPT !.pc = "crashed"]
    /\ UNCHANGED <<pos, ply, call, search, now, mem, io, run>>

\* a time budget of 200 s
LongBudget == 40000

\* the clock, 88 s after the start
LongElapsed == 17600

\* the deepest depth limit whose search fits under the recursion limit
LastFittingDepth == RecursionLimit - FramesNeeded(0)

\* AlphaBeta.evaluate on a board without an empty square: every node tries
\* the pass alone, so the leaf is the root after search_depth passes
FullBoardResult(p, search_depth) ==
    Valued(PassAction,
           evaluate(IF search_depth % 2 = 1
                    THEN make_move(p, PassAction).new_pos
                    ELSE p))

\* the driver on the all-white board, 88 s into a budget of 200 s: every
\* iteration up to the deepest that fits has completed, the last one just now
DeepDriver ==
    LET root == BitboardOthelloPosition(WhiteBoardString)
        started == DriverStart(LongBudget)
    IN  [started EXCEPT
           !.current_depth = LastFittingDepth + 1,
           !.alg_search_depth = LastFittingDepth,
           !.remaining_time = started.time_limit - LongElapsed,
           !.alg_start_time = LongElapsed,
           !.alg_time_limit = started.time_limit - LongElapsed,
           !.best_action = FullBoardResult(root, LastFittingDepth)]

InitDeep ==
    \/ InitDriver
    \/ /\ pos = BitboardOthelloPosition(WhiteBoardString)
       /\ ply = 0
       /\ call = NoCall
       /\ search = NoSearch
       /\ now = LongElapsed
       /\ drv = DeepDriver
       /\ mem = NoObjects
       /\ io = NoText
       /\ run = NoRun

NextDeep ==
    \/ NextDriver
    \/ DriverSearchOverflows

SpecDeep == InitDeep /\ [][NextDeep]_vars

(***************************************************************************)
(* Searches of one AlphaBeta object, node by node, while the clock runs.   *)
(***************************************************************************)

\* the deepest search_depth of these searches
MaxNodeDepth == 2

\* the number of evaluate calls on the one object
MaxSearches == 2

\* the arguments of set_time_limit: none, or this much of the clock
NodeLimits == {NoLimit, 10}

\* the positions searched
NodePositions ==
    {BitboardOthelloPosition(text) :
        text \in {LateGameString5, ForcedPassString, CornerTrapString,
                  WhiteBoardString}}

InitNodes ==
    /\ pos \in NodePositions
    /\ ply = 0
    /\ call = NoCall
    /\ search = NoSearch
    /\ now = 0
    /\ drv = NoDriver
    /\ mem = NoObjects
    /\ io = NoText
    /\ run = NoRun

\* evaluate(pos) is called on an object in the state `r`
CallEvaluateOn(r, depth) ==
    /\ run.status # "running"
    /\ run.searches < MaxSearches
    /\ run' = EnterNode([r EXCEPT !.status = "running", !.root = pos,
                                  !.search_depth = depth, !.stack = << >>,
                                  !.result = NoBest, !.searches = @ + 1,
                                  !.late_moves = 0, !.late_nodes = 0],
                        now, pos, TRUE, NegInf, PosInf, 0)
    /\ UNCHANGED <<pos, ply, call, search, now, drv, mem, io>>

\* set_search_depth, set_time_limit and evaluate, as the driver calls them
SetLimitAndEvaluate(depth, time_limit) ==
    /\ time_limit \in NodeLimits
    /\ CallEvaluateOn([run EXCEPT !.start_time = now,
                                  !.time_limit = time_limit,
                                  !.nodes_searched = 0], depth)

\* set_search_depth and evaluate with the limit and the count left as they are
EvaluateAgain(depth) ==
    /\ run.searches > 0
    /\ CallEvaluateOn(run, depth)

\* the loop of the top frame goes to its next child
Expand ==
    /\ run.status = "running"
    /\ run.stack[Len(run.stack)].i <= Len(run.stack[Len(run.stack)].moves)
    /\ run' = ExpandChild(run, now)
    /\ UNCHANGED <<pos, ply, call, search, now, drv, mem, io>>

\* the loop of the top frame is over and the node returns
Finish ==
    /\ run.status = "running"
    /\ run.stack[Len(run.stack)].i > Len(run.stack[Len(run.stack)].moves)
    /\ run' = FinishNode(run)
    /\ UNCHANGED <<pos, ply, call, search, now, drv, mem, io>>

\* the clock advances while a search runs
TickNodes ==
    /\ run.status = "running"
    /\ now < MaxClock
    /\ now' = now + TickSize
    /\ UNCHANGED <<pos, ply, call, search, drv, mem, io, run>>

NextNodes ==
    \/ \E depth \in 1 .. MaxNodeDepth : \E time_limit \in NodeLimits :
          SetLimitAndEvaluate(depth, time_limit)
    \/ \E depth \in 1 .. MaxNodeDepth : EvaluateAgain(depth)
    \/ Expand
    \/ Finish
    \/ TickNodes

SpecNodes == InitNodes /\ [][NextNodes]_vars

(***************************************************************************)
(* The variants of AlphaBeta.evaluate: the depth their root is given and   *)
(* the plies between the root and the nodes the evaluator is called on.    *)
(***************************************************************************)

\* the deepest search_depth given to a variant
MaxVariantDepth == 3

\* AlphaBeta.py: return self.max_value(othello_position, -inf, inf, 0)
RootDepth == 0

\* Python/AlphaBeta.py: return self.max_value(othello_position, -inf, inf, 1)
PythonRootDepth == 1

RECURSIVE LeafPlies(_, _, _, _)
\* max_value and min_value from a node at `depth`, `plies` moves below the
\* root: the plies of the nodes at which depth == self.search_depth
LeafPlies(p, depth, search_depth, plies) ==
    IF depth = search_depth
    THEN {plies}
    ELSE UNION {LeafPlies(make_move(p, action).new_pos, depth + 1,
                          search_depth, plies + 1)
                : action \in Range(NodeMoves(p))}

\* evaluate(pos) of the variant whose root has the depth root_depth
RunVariant(root_depth, search_depth) ==
    /\ ~search.done
    /\ search' = [done |-> TRUE, depth |-> search_depth, root |-> pos,
                  move |-> NoBest, root_depth |-> root_depth,
                  plies |-> LeafPlies(pos, root_depth, search_depth, 0)]
    /\ UNCHANGED <<pos, ply, call, now, drv, mem, io, run>>

\* set_search_depth and evaluate of AlphaBeta.py
RunMain(search_depth) ==
    /\ search_depth >= 1
    /\ RunVariant(RootDepth, search_depth)

\* set_search_depth and evaluate of Python/AlphaBeta.py
RunPython(search_depth) ==
    /\ search_depth >= 1
    /\ RunVariant(PythonRootDepth, search_depth)

NextVariants ==
    \/ \E action \in Placements : ~search.done /\ PlayMove(action, MaxSearchPly)
    \/ ~search.done /\ PlayPass(MaxSearchPly)
    \/ \E search_depth \in 1 .. MaxVariantDepth : RunMain(search_depth)
    \/ \E search_depth \in 1 .. MaxVariantDepth : RunPython(search_depth)

SpecVariants == InitSearch /\ [][NextVariants]_vars

(***************************************************************************)
(* The transposition table by itself: entries are stored and looked up     *)
(* with depths, values and windows from small sets.                        *)
(***************************************************************************)

\* the deepest depth of a store or a lookup
MaxTableDepth == 1

\* the values stored
TableValues == {-1, 0, 1}

\* the alphas and betas of the stores and the lookups
TableBounds == {NegInf, 0, PosInf}

\* the positions looked up, of which the one held is stored
TablePositions == {initialize, BitboardOthelloPosition(OpeningBlackString)}

InitTable ==
    /\ pos \in TablePositions
    /\ ply = 0
    /\ call = NoCall
    /\ search = NoSearch
    /\ now = 0
    /\ drv = NoDriver
    /\ mem = NoObjects
    /\ io = NoText
    /\ run = NoRun

\* self._store_transposition(pos, depth, value, move, alpha, beta); what an
\* earlier lookup returned is held no longer
StoreEntry(depth, value, alpha, beta) ==
    /\ run' = [run EXCEPT !.transposition_table =
                  store_transposition(@, pos, depth, value, LeafAction, alpha,
                                      beta),
                          !.lookup = NoLookup]
    /\ UNCHANGED <<pos, ply, call, search, now, drv, mem, io>>

\* self._lookup_transposition(p, depth, alpha, beta)
LookupEntry(p, depth, alpha, beta) ==
    /\ run' = [run EXCEPT !.lookup =
                  [made |-> TRUE, pos |-> p, depth |-> depth, alpha |-> alpha,
                   beta |-> beta,
                   ret |-> lookup_transposition(run.transposition_table, p,
                                                depth, alpha, beta)]]
    /\ UNCHANGED <<pos, ply, call, search, now, drv, mem, io>>

NextTable ==
    \/ \E depth \in 0 .. MaxTableDepth, value \in TableValues,
          alpha \in TableBounds, beta \in TableBounds :
          StoreEntry(depth, value, alpha, beta)
    \/ \E p \in TablePositions, depth \in 0 .. MaxTableDepth,
          alpha \in TableBounds, beta \in TableBounds :
          LookupEntry(p, depth, alpha, beta)

SpecTable == InitTable /\ [][NextTable]_vars

InitHeap ==
    /\ pos = EmptyPosition
    /\ ply = 0
    /\ call = NoCall
    /\ search = NoSearch
    /\ now = 0
    /\ drv = NoDriver
    /\ \E p \in HeapPositions :
          mem = [heap |-> <<p>>, before |-> <<p>>,
                 op |-> MethodCall("none", 0, NoneAction, 0)]
    /\ io = NoText
    /\ run = NoRun

\* the objects after a method call, with those before it and the call
Called(name, self, action, outcome) ==
    /\ mem' = [heap |-> outcome.heap, before |-> mem.heap,
               op |-> MethodCall(name, self, action, outcome.ref)]
    /\ UNCHANGED <<pos, ply, call, search, now, drv, io, run>>

CallMakeMove(self, action) ==
    /\ Len(mem.heap) < MaxObjects
    /\ Called("make_move", self, action, HeapMakeMove(mem.heap, self, action))

CallClone(self) ==
    /\ Len(mem.heap) < MaxObjects
    /\ Called("clone", self, NoneAction, HeapClone(mem.heap, self))

CallGetMoves(self) ==
    /\ mem.op.name # "get_moves"
    /\ Called("get_moves", self, NoneAction, Outcome(mem.heap, 0))

CallEvaluate(self) ==
    /\ mem.op.name # "evaluate"
    /\ Called("evaluate", self, NoneAction, HeapEvaluate(mem.heap, self))

CallInitialize(self) ==
    /\ mem.heap[self] # initialize
    /\ Called("initialize", self, NoneAction, HeapInitialize(mem.heap, self))

\* the placements on the first white and the first black square of p
TakenPlacements(p) ==
    {action \in Placements :
        \/ /\ BitPos(action) \in p.white_bitboard
           /\ \A sq \in p.white_bitboard : BitPos(action) <= sq
        \/ /\ BitPos(action) \in p.black_bitboard
           /\ \A sq \in p.black_bitboard : BitPos(action) <= sq}

NextHeap ==
    \/ \E self \in 1 .. Len(mem.heap) :
          \E action \in Range(get_moves(mem.heap[self])) \cup {PassAction}
                         \cup TakenPlacements(mem.heap[self]) :
             CallMakeMove(self, action)
    \/ \E self \in 1 .. Len(mem.heap) : CallClone(self)
    \/ \E self \in 1 .. Len(mem.heap) : CallGetMoves(self)
    \/ \E self \in 1 .. Len(mem.heap) : CallEvaluate(self)
    \/ \E self \in 1 .. Len(mem.heap) : CallInitialize(self)

SpecHeap == InitHeap /\ [][NextHeap]_vars

InitParse ==
    /\ pos = EmptyPosition
    /\ ply = 0
    /\ call = NoCall
    /\ search = NoSearch
    /\ now = 0
    /\ drv = NoDriver
    /\ mem = NoObjects
    /\ \E text \in {DefaultPosString, EmptyBoardString, WhiteBoardString,
                     StripedBoardString, StandardString, ForcedPassString,
                     LateGameString5, LateGameString8} :
          io = [NoText EXCEPT !.stage = "text", !.text = text]
    /\ run = NoRun

\* one character of the position string is overwritten
EditText(i, ch) ==
    /\ io.stage = "text"
    /\ io.edits < MaxEdits
    /\ i <= Len(io.text)
    /\ io.text[i] # ch
    /\ io' = [io EXCEPT !.text[i] = ch, !.edits = @ + 1]
    /\ UNCHANGED <<pos, ply, call, search, now, drv, mem, run>>

\* the position string loses its last character
DropLast ==
    /\ io.stage = "text"
    /\ Len(io.text) = 65
    /\ io' = [io EXCEPT !.text = SubSeq(@, 1, Len(@) - 1)]
    /\ UNCHANGED <<pos, ply, call, search, now, drv, mem, run>>

\* pos = BitboardOthelloPosition(text)
Construct ==
    /\ io.stage = "text"
    /\ pos' = BitboardOthelloPosition(io.text)
    /\ io' = [io EXCEPT !.stage = "parsed"]
    /\ UNCHANGED <<ply, call, search, now, drv, mem, run>>

\* a move is played on the parsed position
PlayParsed(action) ==
    /\ io.stage = "parsed"
    /\ PlayMove(action, MaxParsePly)

\* rendered = pos.to_string()
Render ==
    /\ io.stage = "parsed"
    /\ io' = [io EXCEPT !.stage = "rendered", !.rendered = to_string(pos)]
    /\ UNCHANGED <<pos, ply, call, search, now, drv, mem, run>>

\* reparsed = BitboardOthelloPosition(rendered)
Reparse ==
    /\ io.stage = "rendered"
    /\ io' = [io EXCEPT !.stage = "reparsed",
                        !.reparsed = BitboardOthelloPosition(io.rendered)]
    /\ UNCHANGED <<pos, ply, call, search, now, drv, mem, run>>

NextParse ==
    \/ \E i \in EditIndices, ch \in Alphabet : EditText(i, ch)
    \/ DropLast
    \/ Construct
    \/ \E action \in Range(get_moves(pos)) : PlayParsed(action)
    \/ Render
    \/ Reparse

SpecParse == InitParse /\ [][NextParse]_vars

(***************************************************************************)
(* Claims                                                                  *)
(***************************************************************************)
Discs(p) == popcount(p.white_bitboard) + popcount(p.black_bitboard)

Flipped(p) == [p EXCEPT !.maxPlayer = ~p.maxPlayer]

\* the rule of the game for square sq with p's side to move
RuleAllows(p, sq) ==
    /\ sq \in p.empty_bitboard
    /\ is_valid_move_bitboard(p, sq, MyPieces(p), OppPieces(p))

\* C1: in every position reached from a start position by moves taken from
\* get_moves (or a pass when get_moves is empty), no square is both white and
\* black and every one of the 64 squares is white, black or empty
C1_MaskPartition ==
    /\ pos.white_bitboard \cap pos.black_bitboard = {}
    /\ (pos.white_bitboard \cup pos.black_bitboard) \cup pos.empty_bitboard = FULL

C1_Witness ==
    /\ ply >= 2
    /\ call.made
    /\ call.ret.flips >= 1
    /\ pos = call.ret.new_pos

\* C2: a placement is in get_moves() exactly when make_move with it returns
\* (does not raise) with a flip count of at least 1
C2_LegalIffCapture ==
    LET moves == Range(get_moves(pos))
    IN  \A action \in Placements :
            (action \in moves)
                <=> LET ret == make_move(pos, action)
                    IN  ~ret.raised /\ ret.flips >= 1

C2_Witness ==
    /\ call.made
    /\ ~call.action.is_pass_move
    /\ call.ret.flips >= 2
    /\ \E action \in Placements :
          /\ BitPos(action) \in pos.empty_bitboard
          /\ action \notin Range(get_moves(pos))

\* C3: with either side to move, get_moves returns exactly the empty squares
\* from which, in some direction, a run of one or more opposing discs that
\* stays on the board is followed by an own disc
C3_MovesMatchRule ==
    \A p \in {pos, Flipped(pos)} :
        LET possible_moves == PossibleMoves(p)
        IN  \A sq \in FULL : (sq \in possible_moves) <=> RuleAllows(p, sq)

\* a run that would only close by wrapping from column 8 to column 1
C3_Witness ==
    \E sq \in pos.empty_bitboard :
        /\ sq % 8 = 0
        /\ sq >= 8
        /\ (sq - 1) \in OppPieces(pos)
        /\ (sq - 2) \in MyPieces(pos)
        /\ sq \notin PossibleMoves(pos)
        /\ PossibleMoves(pos) # {}

\* C4: a legal placement adds exactly one disc and removes exactly one empty
\* square; a pass leaves the three masks as they were
C4_DiscConservation ==
    call.made =>
        LET before == call.recv
            after == call.ret.new_pos
        IN  IF call.action.is_pass_move
            THEN /\ after.white_bitboard = before.white_bitboard
                 /\ after.black_bitboard = before.black_bitboard
                 /\ after.empty_bitboard = before.empty_bitboard
            ELSE /\ Discs(after) = Discs(before) + 1
                 /\ popcount(after.empty_bitboard)
                        = popcount(before.empty_bitboard) - 1

C4_Witness ==
    /\ call.made
    /\ ~call.action.is_pass_move
    /\ call.ret.flips >= 3

\* C5: every make_move that returns gives a position with the other side to
\* move, and the caller's position alternates with it
C5_TurnAlternation ==
    call.made =>
        /\ ~call.ret.raised
        /\ call.ret.new_pos.maxPlayer = ~call.recv.maxPlayer
        /\ pos.maxPlayer = ~call.recv.maxPlayer

C5_Witness ==
    /\ call.made
    /\ call.action.is_pass_move
    /\ ply >= 2

\* C6: make_move with a placement on an empty square that captures nothing
\* raises instead of returning a position
C6_NoCaptureRaises ==
    (/\ call.made
     /\ ~call.action.is_pass_move
     /\ BitPos(call.action) \in call.recv.empty_bitboard
     /\ ~RuleAllows(call.recv, BitPos(call.action)))
        => call.ret.raised

\* plain minimax over the tree the search walks: every move of get_moves (or
\* the pass), the evaluator at the depth limit, no pruning
SetMax(values) == CHOOSE v \in values : \A w \in values : v >= w

SetMin(values) == CHOOSE v \in values : \A w \in values : v <= w

RECURSIVE MinimaxValue(_, _, _, _)
MinimaxValue(p, depth, search_depth, maximizing) ==
    IF depth = search_depth
    THEN evaluate(p)
    ELSE LET squares == PossibleMoves(p)
             children ==
                 IF squares = {}
                 THEN {make_move(p, PassAction).new_pos}
                 ELSE {make_move(p, OthelloAction((sq \div 8) + 1, (sq % 8) + 1,
                                                  FALSE)).new_pos
                       : sq \in squares}
             values == {MinimaxValue(c, depth + 1, search_depth, ~maximizing)
                        : c \in children}
         IN  IF maximizing THEN SetMax(values) ELSE SetMin(values)

\* C9: the value carried by the action a completed search returns equals the
\* root value of plain minimax to the same depth with the same evaluator
C9_PruningSound ==
    search.done =>
        search.move.value = MinimaxValue(search.root, 0, search.depth, TRUE)

\* a depth-4 search in which the narrowed window made a child return a bound
\* instead of its exact minimax value, so part of the tree was cut off
C9_Witness ==
    /\ search.done
    /\ search.depth = 4
    /\ ~search.move.action.is_pass_move
    /\ \E i \in 1 .. Len(NodeMoves(search.root)) :
          LET child == make_move(search.root, NodeMoves(search.root)[i]).new_pos
          IN  min_value(child, search.move.value, PosInf, 1, 4).value
                  # MinimaxValue(child, 1, 4, FALSE)

\* the objects that were alive before the last method call
Before == 1 .. Len(mem.before)

\* C7: make_move, get_moves, clone and evaluate leave every field of every
\* object that was alive before the call as it was, the receiver included;
\* the position make_move or clone returns is an object that was not alive
\* before the call; and overwriting one object in place leaves every other
\* object as it was
C7_BoardImmutability ==
    /\ mem.op.name \in {"make_move", "get_moves", "clone", "evaluate"} =>
          /\ Len(mem.heap) >= Len(mem.before)
          /\ \A r \in Before : mem.heap[r] = mem.before[r]
    /\ (mem.op.name \in {"make_move", "clone"} /\ mem.op.ref # 0) =>
          mem.op.ref \notin Before
    /\ mem.op.name = "initialize" =>
          \A r \in Before \ {mem.op.self} : mem.heap[r] = mem.before[r]

\* the position a make_move returned has been overwritten in place while the
\* position it was made from is alive
C7_Witness ==
    /\ mem.op.name = "initialize"
    /\ mem.op.self = 2
    /\ mem.heap[2] # mem.before[2]
    /\ mem.heap[1] # initialize
    /\ get_moves(mem.heap[1]) # << >>
    /\ mem.before[2] = make_move(mem.heap[1], get_moves(mem.heap[1])[1]).new_pos

\* a position string of 65 characters, the side then 64 squares
WellFormed(text) ==
    /\ Len(text) = 65
    /\ text[1] \in {"W", "B"}
    /\ \A i \in 2 .. 65 : text[i] \in {"E", "O", "X"}

\* C8: the text rendered from a position that was parsed from a well-formed
\* string is that string, and the position parsed from the text rendered
\* from a position whose masks partition the board has its masks and side
C8_RoundTrip ==
    /\ (io.stage \in {"rendered", "reparsed"} /\ ply = 0 /\ WellFormed(io.text)) =>
          io.rendered = io.text
    /\ (io.stage = "reparsed"
        /\ pos.white_bitboard \cap pos.black_bitboard = {}
        /\ pos.empty_bitboard = FULL \ (pos.white_bitboard \cup pos.black_bitboard)) =>
          /\ io.reparsed.white_bitboard = pos.white_bitboard
          /\ io.reparsed.black_bitboard = pos.black_bitboard
          /\ io.reparsed.empty_bitboard = pos.empty_bitboard
          /\ io.reparsed.maxPlayer = pos.maxPlayer

\* a well-formed string that was edited has been parsed and rendered, with
\* discs of both colours and black to move
C8_Witness ==
    /\ io.stage = "reparsed"
    /\ io.edits > 0
    /\ WellFormed(io.text)
    /\ ply = 0
    /\ ~pos.maxPlayer
    /\ pos.white_bitboard # {}
    /\ pos.black_bitboard # {}
    /\ io.rendered = io.text

\* C10: the move the driver prints is a placement of get_moves of the input
\* position, or the pass when get_moves of the input position is empty
C10_OutputLegal ==
    drv.pc = "done" =>
        IF get_moves(pos) = << >>
        THEN drv.output = PassAction
        ELSE drv.output \in Range(get_moves(pos))

\* C11: when no iteration completed (the depth-1 search was stopped, or no
\* search was started), the driver prints the first move of get_moves of the
\* input position, and the pass only when get_moves is empty
C11_FallbackFirstMove ==
    (drv.pc = "done" /\ drv.current_depth = 1) =>
        drv.output = (IF get_moves(pos) = << >>
                      THEN PassAction
                      ELSE get_moves(pos)[1])

\* C12: the iterations run at depths 1, 2, 3, ...; best_action changes only
\* when a search returns, to what that search returned, and the depth then
\* goes up by one; and the move printed after at least one completed
\* iteration is the result of the deepest completed one, whatever a stopped
\* search had found
C12_OnlyCompletedCount ==
    /\ []((drv.pc = "done" /\ drv.current_depth > 1) =>
            drv.output = AlphaBetaEvaluate(pos, drv.current_depth - 1).action)
    /\ [][(drv'.best_action # drv.best_action) =>
            /\ drv.pc = "search"
            /\ ~TimeElapsed
            /\ drv'.best_action = AlphaBetaEvaluate(pos, drv.alg_search_depth)
            /\ drv'.current_depth = drv.current_depth + 1]_vars
    /\ [][(drv'.alg_search_depth # drv.alg_search_depth) =>
            /\ drv'.alg_search_depth = drv.alg_search_depth + 1
            /\ drv'.alg_search_depth = drv.current_depth]_vars

\* two iterations completed with different moves, the third was started and
\* stopped with some children of the root searched, and the move is printed
C12_Witness ==
    /\ drv.pc = "done"
    /\ drv.current_depth = 3
    /\ drv.alg_search_depth = 3
    /\ drv.remaining_time >= MinRemaining
    /\ now - drv.alg_start_time >= drv.alg_time_limit
    /\ AlphaBetaEvaluate(pos, 1).action # AlphaBetaEvaluate(pos, 2).action
    /\ drv.output = AlphaBetaEvaluate(pos, 2).action
    /\ RootPartial(pos, 3, 1).action # drv.output

\* C16: a completed search with depth limit >= 1 returns the pass exactly
\* when get_moves of the root is empty and otherwise one of the actions of
\* get_moves of the root, never None or the dummy action of a leaf; and at
\* every node the pass is among the moves tried exactly when get_moves of
\* that node is empty
C16_PassIffForced ==
    /\ (PassAction \in Range(NodeMoves(pos))) <=> (get_moves(pos) = << >>)
    /\ search.done =>
          LET moves == get_moves(search.root)
          IN  /\ (search.move.action = PassAction) <=> (moves = << >>)
              /\ moves # << >> => search.move.action \in Range(moves)
              /\ search.move.action \notin {NoneAction, LeafAction}

\* a search has returned the pass on a root where the side to move has no
\* placement and the other side has one
C16_Witness ==
    /\ search.done
    /\ search.depth >= 2
    /\ get_moves(search.root) = << >>
    /\ get_moves(Flipped(search.root)) # << >>
    /\ search.move.action = PassAction

\* C17: the evaluator's score of a position is the negative of its score of
\* the same discs with the other side to move
C17_SideSymmetry ==
    evaluate(pos) = - evaluate(Flipped(pos))

\* C19: on a board with no empty square the search returns the pass, and
\* the value it carries is the evaluator's score of the input position
C19_TerminalValue ==
    (search.done /\ search.root.empty_bitboard = {}) =>
        /\ search.move.action = PassAction
        /\ search.move.value = evaluate(search.root)

\* C20 as stated: on the initial board make_move with the placement (5, 4)
\* returns with a flip count of 1
C20_CaptureCountAsStated ==
    (/\ call.made
     /\ call.recv = initialize
     /\ call.action = OthelloAction(5, 4, FALSE))
        => (~call.ret.raised /\ call.ret.flips = 1)

\* C20: on the initial board, white to move, make_move with the placement
\* (5, 3) returns with a flip count of 1, the disc on (5, 4) turned white
C20_CaptureCount ==
    (/\ call.made
     /\ call.recv = initialize
     /\ call.action = OthelloAction(5, 3, FALSE))
        => /\ ~call.ret.raised
           /\ call.ret.flips = 1
           /\ call.ret.new_pos.white_bitboard = {27, 34, 35, 36}
           /\ call.ret.new_pos.black_bitboard = {28}

\* make_move was called with (5, 3) on the initial board and returned
C20_Witness ==
    /\ call.made
    /\ call.recv = initialize
    /\ call.action = OthelloAction(5, 3, FALSE)
    /\ ~call.ret.raised

\* C18: when exactly one move of get_moves of the root is a corner and all
\* its other moves are X-squares, a completed search returns the corner
C18_CornerTrap ==
    search.done =>
        LET moves == Range(get_moves(search.root))
            corners == {m \in moves : BitPos(m) \in corner_mask}
        IN  (/\ Cardinality(corners) = 1
             /\ moves \ corners # {}
             /\ \A m \in moves \ corners : BitPos(m) \in x_square_mask)
                => search.move.action \in corners

\* C13: a driver run that has ended has printed exactly one move, and no
\* run prints more than one
C13_PrintsOneMove ==
    /\ drv.printed <= 1
    /\ drv.pc \in {"done", "crashed"} => drv.printed = 1

C15_CompletedDeterministic ==
    run.status = "returned" =>
        run.result = AlphaBetaEvaluate(run.root, run.search_depth)

C15_Witness ==
    /\ run.status = "returned"
    /\ run.searches = 2
    /\ run.search_depth = 2
    /\ run.root \in DOMAIN run.transposition_table
    /\ run.nodes_searched > Cardinality(DOMAIN run.transposition_table)
    /\ now > run.start_time

\* C21: a position is constructed only from a well-formed string: 65
\* characters, W or B first, then E, O or X on every square; any other
\* string is rejected and never becomes a board.
C21_MalformedRejected ==
    io.stage = "parsed" => WellFormed(io.text)

\* the score the evaluator gives the board of p with `side` to move
ScoreFor(p, side) == evaluate([p EXCEPT !.maxPlayer = side])

RECURSIVE RootViewValue(_, _, _, _, _)
\* plain minimax to search_depth with every leaf scored for `side`
RootViewValue(p, depth, search_depth, maximizing, side) ==
    IF depth = search_depth
    THEN ScoreFor(p, side)
    ELSE LET values == {RootViewValue(make_move(p, action).new_pos, depth + 1,
                                      search_depth, ~maximizing, side)
                        : action \in Range(NodeMoves(p))}
         IN  IF maximizing THEN SetMax(values) ELSE SetMin(values)

\* C22: at every depth limit, odd or even, the value a completed search
\* maximises at the root is the minimax value of the leaves scored for the
\* side to move at the root.
C22_RootPerspective ==
    search.done =>
        search.move.value = RootViewValue(search.root, 0, search.depth, TRUE,
                                          search.root.maxPlayer)

\* neither the side to move in p nor, after its pass, the other side has a
\* legal placement
TwoPasses(p) ==
    /\ get_moves(p) = << >>
    /\ get_moves(make_move(p, PassAction).new_pos) = << >>

\* C23: a node at which both sides would pass is terminal: it is scored by
\* the evaluator and the search never loops over its children, so no frame
\* on the stack belongs to such a position.
C23_TwoPassesTerminal ==
    \A k \in 1 .. Len(run.stack) : ~TwoPasses(run.stack[k].p)

\* C24: in every variant of AlphaBeta a search with the depth limit L calls
\* the evaluator only on nodes that lie exactly L plies below the root.
C24_DepthConvention ==
    search.done => search.plies = {search.depth}

\* C25: the driver is always at one of its own lines; a search that is
\* left without completing its iteration takes the driver out of the loop;
\* and once out of the loop the driver sets no depth, sets no limit and
\* starts no search again.
C25_AbortIsFinal ==
    /\ [](drv.pc \in {"while", "body", "set_time_limit", "search", "finish",
                      "done"})
    /\ [][(/\ drv.pc = "search"
            /\ drv'.pc # "search"
            /\ drv'.current_depth = drv.current_depth) =>
              drv'.pc = "finish"]_vars
    /\ [][drv.pc \in {"finish", "done"} =>
              /\ drv'.pc \in {"finish", "done"}
              /\ drv'.current_depth = drv.current_depth
              /\ drv'.alg_search_depth = drv.alg_search_depth
              /\ drv'.alg_start_time = drv.alg_start_time
              /\ drv'.alg_time_limit = drv.alg_time_limit]_vars

\* the second iteration was given its limit and was stopped, and the driver
\* printed its move
C25_Witness ==
    /\ drv.pc = "done"
    /\ drv.current_depth = 2
    /\ drv.alg_search_depth = drv.current_depth
    /\ drv.alg_time_limit = drv.remaining_time
    /\ drv.remaining_time >= MinRemaining
    /\ TimeElapsed

\* C26: move_priority orders the actions by their class: the pass below
\* every X-square, every X-square below each of the eight squares next to a
\* corner on its edge, those below every other square off the edge, those
\* below every other edge square, and those below every corner.
C26_PriorityOrder ==
    LET Row(sq) == sq \div 8
        Col(sq) == sq % 8
        c_squares ==
            {sq \in FULL : \E corner \in corner_mask :
                \/ Row(sq) = Row(corner) /\ Col(sq) - Col(corner) \in {-1, 1}
                \/ Col(sq) = Col(corner) /\ Row(sq) - Row(corner) \in {-1, 1}}
        Class(action) ==
            IF action.is_pass_move THEN 0
            ELSE IF BitPos(action) \in x_square_mask THEN 1
            ELSE IF BitPos(action) \in c_squares THEN 2
            ELSE IF BitPos(action) \in corner_mask THEN 5
            ELSE IF BitPos(action) \in edge_mask THEN 4
            ELSE 3
    IN  call.made =>
            \A other \in Placements \cup {PassAction} :
                /\ Class(other) < Class(call.action) =>
                       move_priority(other) < move_priority(call.action)
                /\ Class(call.action) < Class(other) =>
                       move_priority(call.action) < move_priority(other)

\* C27: the entry a node writes is classified against the window the node
\* was entered with: "upper" when value <= alpha_0, otherwise "lower" when
\* value >= beta_0, otherwise "exact"; this holds for a node that returns
\* from its loop and for a leaf, and the entry of the root is "exact".
C27_StoreClassification ==
    /\ [][LET top == run.stack[Len(run.stack)]
              written == run'.transposition_table[top.p]
          IN  (/\ run.status = "running"
               /\ run'.status # "stopped"
               /\ run' # run
               /\ top.i > Len(top.moves)) =>
                 /\ top.p \in DOMAIN run'.transposition_table
                 /\ written.value = top.best_value
                 /\ written.entry_type =
                       (IF top.best_value <= top.original_alpha THEN "upper"
                        ELSE IF top.best_value >= top.original_beta THEN "lower"
                        ELSE "exact")
                 /\ Len(run.stack) = 1 => written.entry_type = "exact"]_vars
    /\ [][LET top == run.stack[Len(run.stack)]
              child == make_move(top.p, top.moves[top.i]).new_pos
              written == run'.transposition_table[child]
          IN  (/\ run.status = "running"
               /\ run'.status # "stopped"
               /\ run' # run
               /\ top.i <= Len(top.moves)
               /\ top.depth + 1 = run.search_depth) =>
                 /\ child \in DOMAIN run'.transposition_table
                 /\ written.entry_type =
                       (IF evaluate(child) <= top.alpha THEN "upper"
                        ELSE IF evaluate(child) >= top.beta THEN "lower"
                        ELSE "exact")]_vars

\* a depth-2 search has returned; of the nodes below the root one was
\* entered with a window its value fell under and one with a window its
\* value lay inside
C27_Witness ==
    /\ run.status = "returned"
    /\ run.search_depth = 2
    /\ run.transposition_table[run.root].entry_type = "exact"
    /\ \E p \in DOMAIN run.transposition_table :
          /\ run.transposition_table[p].depth = 1
          /\ run.transposition_table[p].entry_type = "upper"
    /\ \E p \in DOMAIN run.transposition_table :
          /\ run.transposition_table[p].depth = 1
          /\ run.transposition_table[p].entry_type = "exact"

\* C28 as stated: a lookup reports a hit exactly when the entry is exact
\* and its depth is at least the depth asked for, or is a lower bound with
\* value >= beta, or is an upper bound with value <= alpha, the depth being
\* asked of exact entries only.
C28_LookupRuleAsStated ==
    run.lookup.made =>
        (run.lookup.ret.found <=>
            /\ run.lookup.pos \in DOMAIN run.transposition_table
            /\ LET entry == run.transposition_table[run.lookup.pos]
               IN  \/ /\ entry.entry_type = "exact"
                      /\ entry.depth >= run.lookup.depth
                   \/ /\ entry.entry_type = "lower"
                      /\ entry.value >= run.lookup.beta
                   \/ /\ entry.entry_type = "upper"
                      /\ entry.value <= run.lookup.alpha)

\* C28: a lookup reports a hit exactly when the depth of the entry is at
\* least the depth asked for and the entry is exact, or is a lower bound with
\* value >= beta, or is an upper bound with value <= alpha; a hit returns the
\* value and the move of the entry.
C28_LookupRule ==
    run.lookup.made =>
        /\ run.lookup.ret.found <=>
              /\ run.lookup.pos \in DOMAIN run.transposition_table
              /\ LET entry == run.transposition_table[run.lookup.pos]
                 IN  /\ entry.depth >= run.lookup.depth
                     /\ \/ entry.entry_type = "exact"
                        \/ /\ entry.entry_type = "lower"
                           /\ entry.value >= run.lookup.beta
                        \/ /\ entry.entry_type = "upper"
                           /\ entry.value <= run.lookup.alpha
        /\ run.lookup.ret.found =>
              /\ run.lookup.ret.value =
                    run.transposition_table[run.lookup.pos].value
              /\ run.lookup.ret.move =
                    run.transposition_table[run.lookup.pos].move

\* a lower bound stored at depth 0 was looked up at depth 1 with a beta its
\* value reaches
C28_Witness ==
    /\ run.lookup.made
    /\ run.lookup.pos \in DOMAIN run.transposition_table
    /\ run.transposition_table[run.lookup.pos].entry_type = "lower"
    /\ run.transposition_table[run.lookup.pos].depth < run.lookup.depth
    /\ run.transposition_table[run.lookup.pos].value >= run.lookup.beta
    /\ ~run.lookup.ret.found

\* C29: make_move with a placement on a square that is not empty raises and
\* returns no position, and the receiver and every other position alive
\* before the call have the masks and the side to move they had.
C29_TakenSquareRaises ==
    (/\ mem.op.name = "make_move"
     /\ ~mem.op.action.is_pass_move
     /\ BitPos(mem.op.action) \notin mem.before[mem.op.self].empty_bitboard) =>
        /\ mem.op.ref = 0
        /\ \A r \in Before : mem.heap[r] = mem.before[r]

\* a placement on a black disc of a position that an earlier make_move
\* returned
C29_Witness ==
    /\ mem.op.name = "make_move"
    /\ mem.op.self > 1
    /\ ~mem.op.action.is_pass_move
    /\ BitPos(mem.op.action) \in mem.before[mem.op.self].black_bitboard
    /\ mem.op.ref = 0

\* C30: in a search from the full window every node is entered with
\* alpha < beta; in a max node alpha never decreases and beta stays, in a
\* min node beta never increases and alpha stays; and a loop goes to a
\* further child only while alpha < beta.
C30_WindowInvariant ==
    /\ [](\A k \in 1 .. Len(run.stack) :
            LET f == run.stack[k]
            IN  /\ f.original_alpha < f.original_beta
                /\ f.maximizing =>
                      f.alpha >= f.original_alpha /\ f.beta = f.original_beta
                /\ ~f.maximizing =>
                      f.beta <= f.original_beta /\ f.alpha = f.original_alpha)
    /\ [][(run.status = "running" /\ run'.status = "running"
            /\ Len(run'.stack) = Len(run.stack)) =>
              LET f == run.stack[Len(run.stack)]
                  g == run'.stack[Len(run.stack)]
              IN  /\ f.maximizing => g.alpha >= f.alpha /\ g.beta = f.beta
                  /\ ~f.maximizing => g.beta <= f.beta /\ g.alpha = f.alpha]_vars
    /\ [][(run.status = "running"
            /\ run'.nodes_searched > run.nodes_searched) =>
              LET f == run.stack[Len(run.stack)]
              IN  f.alpha < f.beta]_vars

\* below the root a loop was left by its break, its window closed, after it
\* had narrowed the window it was entered with
C30_Witness ==
    /\ run.status = "running"
    /\ Len(run.stack) >= 2
    /\ LET f == run.stack[Len(run.stack)]
       IN  /\ f.alpha >= f.beta
           /\ f.i > Len(f.moves)
           /\ f.original_alpha > NegInf
           /\ f.beta < f.original_beta

====
